---- MODULE Spec2Model ----
(***************************************************************************)
(* Model of the IMAP STARTTLS coroutine io_starttls::imap::UpgradeTls      *)
(* (src/src/imap.rs) together with the driver loop of the examples         *)
(* (src/examples/std-rustls-imap.rs) and a plain-text IMAP peer.           *)
(*                                                                         *)
(* Bytes are one-character strings, byte strings are sequences of them.    *)
(* Indices returned by memchr / memmem_find are 0-based as in Rust; the    *)
(* absent index (Rust's None) is NoIdx.                                    *)
(***************************************************************************)
EXTENDS Integers, Sequences, FiniteSets, TLC

(* ---------------------------------------------------------------------- *)
(* Bounds of the model                                                     *)
(* ---------------------------------------------------------------------- *)

\* largest number of bytes one read of the transport delivers
MaxChunk == 16

(* ---------------------------------------------------------------------- *)
(* Byte strings                                                            *)
(* ---------------------------------------------------------------------- *)

LF == "\n"
CR == "\r"

\* imap.rs:34  const COMMAND: &'static str = "NGC6543 STARTTLS\r\n"
COMMAND ==
  <<"N","G","C","6","5","4","3"," ","S","T","A","R","T","T","L","S",CR,LF>>

\* imap.rs:99  the needle b"NGC6543 "
TAG == <<"N","G","C","6","5","4","3"," ">>

NoIdx == -1

Min(a, b) == IF a < b THEN a ELSE b

\* memchr, with a bug: only the last byte of the haystack is looked at
memchr_last(needle, haystack) ==
  IF Len(haystack) > 0 /\ haystack[Len(haystack)] = needle
  THEN Len(haystack) - 1
  ELSE NoIdx

\* memchr::memchr(needle, haystack): 0-based index of the first occurrence
memchr(needle, haystack) ==
  IF \E i \in 1..Len(haystack) : haystack[i] = needle
  THEN (CHOOSE i \in 1..Len(haystack) :
          /\ haystack[i] = needle
          /\ \A j \in 1..(i-1) : haystack[j] # needle) - 1
  ELSE NoIdx

OccursAt(haystack, needle, i) ==
  /\ i + Len(needle) - 1 <= Len(haystack)
  /\ \A k \in 1..Len(needle) : haystack[i + k - 1] = needle[k]

\* memchr::memmem::find(haystack, needle): 0-based index of the first
\* occurrence of the byte string needle
memmem_find(haystack, needle) ==
  IF \E i \in 1..Len(haystack) : OccursAt(haystack, needle, i)
  THEN (CHOOSE i \in 1..Len(haystack) :
          /\ OccursAt(haystack, needle, i)
          /\ \A j \in 1..(i-1) : ~OccursAt(haystack, needle, j)) - 1
  ELSE NoIdx

\* &bytes[n..]
SliceFrom(bytes, n) == SubSeq(bytes, n + 1, Len(bytes))

\* &bytes[n..=m]: the bytes at the 0-based positions n to m
SliceInclusive(bytes, n, m) == SubSeq(bytes, n + 1, m + 1)

\* &bytes[n..=m] is in bounds iff n <= m + 1 and m + 1 <= len; otherwise the
\* slice index panics
SliceInclusiveOk(bytes, n, m) == n <= m + 1 /\ m + 1 <= Len(bytes)

(* ---------------------------------------------------------------------- *)
(* io_stream: Io, Read, Write (external crate, consumed through its        *)
(* contract)                                                               *)
(* ---------------------------------------------------------------------- *)

\* Option<Io>::None
NoIo == [dir |-> "None", ok |-> FALSE, bytes |-> <<>>]
\* Io::Read(Err(buffer)): a request to read
ReadRequest == [dir |-> "Read", ok |-> FALSE, bytes |-> <<>>]
\* Io::Read(Ok(output)): the bytes one read produced
ReadDone(chunk) == [dir |-> "Read", ok |-> TRUE, bytes |-> chunk]
\* Io::Write(Err(bytes)): a request to write bytes
WriteRequest(payload) == [dir |-> "Write", ok |-> FALSE, bytes |-> payload]
\* Io::Write(Ok(output)): the write completed
WriteDone == [dir |-> "Write", ok |-> TRUE, bytes |-> <<>>]

\* Read::default()
ReadDefault == [kind |-> "Read", bytes |-> <<>>]
\* Write::new(bytes)
WriteNew(payload) == [kind |-> "Write", bytes |-> payload]
\* Write::default(): a write coroutine with no payload
WriteDefault == WriteNew(<<>>)

\* Result<_, Io> of a coroutine
Ok(chunk) == [tag |-> "Ok", io |-> NoIo, bytes |-> chunk]
Err(io) == [tag |-> "Err", io |-> io, bytes |-> <<>>]
Panic == [tag |-> "Panic", io |-> NoIo, bytes |-> <<>>]

\* Read::resume(input): without input it asks for a read, with the result
\* of the read it completes with the bytes read
ReadResume(op, input) ==
  IF input = NoIo THEN Err(ReadRequest) ELSE Ok(input.bytes)

\* Write::resume(input): without input it asks for its payload to be
\* written, with the confirmation it completes
WriteResume(op, input) ==
  IF input = NoIo THEN Err(WriteRequest(op.bytes)) ELSE Ok(<<>>)

(* ---------------------------------------------------------------------- *)
(* UpgradeTls                                                              *)
(* ---------------------------------------------------------------------- *)

DiscardGreeting(read) == [variant |-> "DiscardGreeting", op |-> read]
WriteStartTlsCommand(write) == [variant |-> "WriteStartTlsCommand", op |-> write]
DiscardResponse(read) == [variant |-> "DiscardResponse", op |-> read]

\* UpgradeTls::new
new == [state |-> WriteStartTlsCommand(WriteDefault), bytes |-> <<>>]

\* UpgradeTls::discard_greeting, with a bug: the flag is ignored
discard_greeting_ignored(self, discard) ==
  [self EXCEPT !.state = DiscardGreeting(ReadDefault)]

\* UpgradeTls::discard_greeting
discard_greeting(self, discard) ==
  [self EXCEPT !.state = IF discard
                         THEN DiscardGreeting(ReadDefault)
                         ELSE WriteStartTlsCommand(WriteDefault)]

\* UpgradeTls::with_discard_greeting
with_discard_greeting(self, discard) == discard_greeting(self, discard)

\* One pass through the body of the loop of resume.  ctl = "return" when
\* the pass leaves resume with ret, "loop" when it goes round again.
\* drove is the state whose coroutine the pass resumed and fed tells whether
\* that coroutine was given the caller's input.
Pass(self, io, ctl, ret, variant, fed) ==
  [self |-> self, io |-> io, ctl |-> ctl, ret |-> ret,
   drove |-> [variant |-> variant, fed |-> fed]]

\* the DiscardGreeting arm, with a bug: the command is enqueued as soon as
\* a read completes, whether or not the greeting line is complete
DiscardGreetingArm_eager(self, io) ==
  LET output == ReadResume(self.state.op, io)
      fed    == io # NoIo
  IN IF output.tag = "Err"
     THEN Pass(self, NoIo, "return", output, "DiscardGreeting", fed)
     ELSE Pass([state |-> WriteStartTlsCommand(WriteNew(COMMAND)),
                bytes |-> self.bytes \o output.bytes],
               NoIo, "loop", Panic, "DiscardGreeting", fed)

\* the DiscardGreeting arm, with a change: the accumulator is cleared when
\* the command is enqueued
DiscardGreetingArm_clears(self, io) ==
  LET output == ReadResume(self.state.op, io)
      bytes  == self.bytes \o output.bytes
      fed    == io # NoIo
  IN IF output.tag = "Err"
     THEN Pass(self, NoIo, "return", output, "DiscardGreeting", fed)
     ELSE IF memchr(LF, bytes) = NoIdx
     THEN Pass([self EXCEPT !.bytes = bytes], NoIo, "loop", Panic,
               "DiscardGreeting", fed)
     ELSE Pass([state |-> WriteStartTlsCommand(WriteNew(COMMAND)),
                bytes |-> <<>>],
               NoIo, "loop", Panic, "DiscardGreeting", fed)

\* resume, arm State::DiscardGreeting (imap.rs:70-88)
DiscardGreetingArm(self, io) ==
  LET output == ReadResume(self.state.op, io)
      bytes  == self.bytes \o output.bytes
      fed    == io # NoIo
  IN IF output.tag = "Err"
     THEN Pass(self, NoIo, "return", output, "DiscardGreeting", fed)
     ELSE IF memchr(LF, bytes) = NoIdx
     THEN Pass([self EXCEPT !.bytes = bytes], NoIo, "loop", Panic,
               "DiscardGreeting", fed)
     ELSE Pass([state |-> WriteStartTlsCommand(WriteNew(COMMAND)),
                bytes |-> bytes],
               NoIo, "loop", Panic, "DiscardGreeting", fed)

\* the WriteStartTlsCommand arm, with a bug: the accumulator is not cleared
\* when the write completes
WriteStartTlsCommandArm_keeps(self, io) ==
  LET output == WriteResume(self.state.op, io)
      fed    == io # NoIo
  IN IF output.tag = "Err"
     THEN Pass(self, NoIo, "return", output, "WriteStartTlsCommand", fed)
     ELSE Pass([self EXCEPT !.state = DiscardResponse(ReadDefault)],
               NoIo, "loop", Panic, "WriteStartTlsCommand", fed)

\* resume, arm State::WriteStartTlsCommand (imap.rs:89-93)
WriteStartTlsCommandArm(self, io) ==
  LET output == WriteResume(self.state.op, io)
      fed    == io # NoIo
  IN IF output.tag = "Err"
     THEN Pass(self, NoIo, "return", output, "WriteStartTlsCommand", fed)
     ELSE Pass([state |-> DiscardResponse(ReadDefault), bytes |-> <<>>],
               NoIo, "loop", Panic, "WriteStartTlsCommand", fed)

\* the DiscardResponse arm, with a bug: the bytes read replace the
\* accumulator instead of extending it
DiscardResponseArm_replace(self, io) ==
  LET output == ReadResume(self.state.op, io)
      bytes  == output.bytes
      fed    == io # NoIo
      n      == memmem_find(bytes, TAG)
      m      == memchr(LF, SliceFrom(bytes, n))
      next   == [self EXCEPT !.bytes = bytes]
  IN IF output.tag = "Err"
     THEN Pass(self, NoIo, "return", output, "DiscardResponse", fed)
     ELSE IF n = NoIdx
     THEN Pass(next, NoIo, "loop", Panic, "DiscardResponse", fed)
     ELSE IF m = NoIdx
     THEN Pass(next, NoIo, "loop", Panic, "DiscardResponse", fed)
     ELSE IF SliceInclusiveOk(bytes, n, m)
     THEN Pass(next, NoIo, "return", Ok(<<>>), "DiscardResponse", fed)
     ELSE Pass(next, NoIo, "return", Panic, "DiscardResponse", fed)

\* the DiscardResponse arm, with a bug: when the tag is missing the
\* command is enqueued again
DiscardResponseArm_resend(self, io) ==
  LET output == ReadResume(self.state.op, io)
      bytes  == self.bytes \o output.bytes
      fed    == io # NoIo
      n      == memmem_find(bytes, TAG)
      m      == memchr(LF, SliceFrom(bytes, n))
      next   == [self EXCEPT !.bytes = bytes]
  IN IF output.tag = "Err"
     THEN Pass(self, NoIo, "return", output, "DiscardResponse", fed)
     ELSE IF n = NoIdx
     THEN Pass([state |-> WriteStartTlsCommand(WriteNew(COMMAND)),
                bytes |-> bytes],
               NoIo, "loop", Panic, "DiscardResponse", fed)
     ELSE IF m = NoIdx
     THEN Pass(next, NoIo, "loop", Panic, "DiscardResponse", fed)
     ELSE IF SliceInclusiveOk(bytes, n, m)
     THEN Pass(next, NoIo, "return", Ok(<<>>), "DiscardResponse", fed)
     ELSE Pass(next, NoIo, "return", Panic, "DiscardResponse", fed)

\* the DiscardResponse arm, with a bug: a read of zero bytes (the peer
\* closed the connection) ends the wait with success
DiscardResponseArm_eof(self, io) ==
  LET output == ReadResume(self.state.op, io)
      bytes  == self.bytes \o output.bytes
      fed    == io # NoIo
      n      == memmem_find(bytes, TAG)
      m      == memchr(LF, SliceFrom(bytes, n))
      next   == [self EXCEPT !.bytes = bytes]
  IN IF output.tag = "Err"
     THEN Pass(self, NoIo, "return", output, "DiscardResponse", fed)
     ELSE IF output.bytes = <<>>
     THEN Pass(next, NoIo, "return", Ok(<<>>), "DiscardResponse", fed)
     ELSE IF n = NoIdx
     THEN Pass(next, NoIo, "loop", Panic, "DiscardResponse", fed)
     ELSE IF m = NoIdx
     THEN Pass(next, NoIo, "loop", Panic, "DiscardResponse", fed)
     ELSE IF SliceInclusiveOk(bytes, n, m)
     THEN Pass(next, NoIo, "return", Ok(<<>>), "DiscardResponse", fed)
     ELSE Pass(next, NoIo, "return", Panic, "DiscardResponse", fed)

\* resume, arm State::DiscardResponse (imap.rs:94-115)
DiscardResponseArm(self, io) ==
  LET output == ReadResume(self.state.op, io)
      bytes  == self.bytes \o output.bytes
      fed    == io # NoIo
      n      == memmem_find(bytes, TAG)
      m      == memchr(LF, SliceFrom(bytes, n))
      next   == [self EXCEPT !.bytes = bytes]
  IN IF output.tag = "Err"
     THEN Pass(self, NoIo, "return", output, "DiscardResponse", fed)
     ELSE IF n = NoIdx
     THEN Pass(next, NoIo, "loop", Panic, "DiscardResponse", fed)
     ELSE IF m = NoIdx
     THEN Pass(next, NoIo, "loop", Panic, "DiscardResponse", fed)
     ELSE IF SliceInclusiveOk(bytes, n, m)
     THEN Pass(next, NoIo, "return", Ok(<<>>), "DiscardResponse", fed)
     ELSE Pass(next, NoIo, "return", Panic, "DiscardResponse", fed)

\* the line the DiscardGreeting arm logs as discarded (imap.rs:74-77)
GreetingLogged(bytes) == SliceInclusive(bytes, 0, memchr(LF, bytes))

\* the line the DiscardResponse arm logs as discarded (imap.rs:99-107)
ResponseLogged(bytes) ==
  LET n == memmem_find(bytes, TAG)
      m == memchr(LF, SliceFrom(bytes, n))
  IN SliceInclusive(bytes, n, m)

\* the match of resume (imap.rs:69)
Arm(self, io) ==
  CASE self.state.variant = "DiscardGreeting" -> DiscardGreetingArm(self, io)
    [] self.state.variant = "WriteStartTlsCommand" ->
         WriteStartTlsCommandArm(self, io)
    [] self.state.variant = "DiscardResponse" -> DiscardResponseArm(self, io)

\* UpgradeTls::resume: the loop (imap.rs:67-118).  The result carries the
\* coroutine after the call, what the call returned and, in order, the
\* passes it made.
RECURSIVE ResumeLoop(_, _, _)
ResumeLoop(self, io, drives) ==
  LET p == Arm(self, io)
      d == Append(drives, p.drove)
  IN IF p.ctl = "return"
     THEN [self |-> p.self, ret |-> p.ret, drives |-> d]
     ELSE ResumeLoop(p.self, p.io, d)

\* resume, with a bug: the accumulator does not outlive the call, every
\* call starts from an empty one
resume_fresh(self, io) == ResumeLoop([self EXCEPT !.bytes = <<>>], io, <<>>)

resume(self, io) == ResumeLoop(self, io, <<>>)

(* ---------------------------------------------------------------------- *)
(* The peer: what the server sends                                         *)
(* ---------------------------------------------------------------------- *)

\* "* OK\r\n": a one-line greeting
GreetingLine == <<"*"," ","O","K",CR,LF>>
\* a greeting followed by a second untagged line
GreetingTwoLines == <<"*",CR,LF,"+",LF>>
\* a greeting line that happens to contain the tag
GreetingWithTag == TAG \o <<LF>>

Greetings == {GreetingLine, GreetingTwoLines, GreetingWithTag}

NoNoise == <<>>
\* one short untagged line
ShortNoise == <<"*",CR,LF>>
\* bytes on the same line as the tag, before it
InlineNoise == <<"x"," ">>
\* "* CAPABILITY\n": an untagged line longer than the tagged line "NGC6543 OK\r\n"
\* that follows it
LongNoise == <<"*"," ","C","A","P","A","B","I","L","I","T","Y",LF>>

StatusOk == <<"O","K">>
StatusNo == <<"N","O">>
StatusBad == <<"B","A","D">>

\* noise, then the tagged line "NGC6543 <status>\r\n"
TaggedResponse(noise, status) == noise \o TAG \o status \o <<CR, LF>>

\* responses that never complete the tagged line
UntaggedResponse == <<"*"," ","B","Y","E",CR,LF>>
UnterminatedResponse == ShortNoise \o TAG \o StatusOk

Responses ==
  {TaggedResponse(NoNoise, StatusOk), TaggedResponse(NoNoise, StatusNo),
   TaggedResponse(NoNoise, StatusBad), TaggedResponse(InlineNoise, StatusOk),
   TaggedResponse(ShortNoise, StatusNo), TaggedResponse(LongNoise, StatusOk),
   TaggedResponse(LongNoise, StatusBad),
   UntaggedResponse, UnterminatedResponse}

(* ---------------------------------------------------------------------- *)
(* The driver (examples/std-rustls-imap.rs:38-43) and the transport        *)
(* ---------------------------------------------------------------------- *)

VARIABLES
  self,      \* the UpgradeTls value
  cfg,       \* how the caller configured it: "default", "discard", "skip"
  started,   \* resume has been called
  result,    \* what the last call of resume returned
  ready,     \* Option<Io>: the result of the I/O the bridge performed
  wire,      \* bytes the server sent that have not been read yet
  reply,     \* what the server answers to the command
  sent,      \* bytes written to the transport
  wrote,     \* a write has completed on the transport
  greetFed,  \* bytes fed to resume while it was in DiscardGreeting
  respFed,   \* bytes fed to resume while it was in DiscardResponse
  log,       \* the requests resume returned, runs of equal requests merged
  succeeded, \* resume has returned Ok
  last       \* the last call of resume: the coroutine and the previous
             \* result at its entry, its input, whether it repeats a call
             \* without input, and the coroutines it resumed

vars == <<self, cfg, started, result, ready, wire, reply, sent, wrote,
          greetFed, respFed, log, succeeded, last>>

NoResult == [tag |-> "None", io |-> NoIo, bytes |-> <<>>]

NoCall == [entry |-> new, input |-> NoIo, before |-> NoResult, again |-> FALSE,
           drives |-> <<>>]

Init ==
  /\ self = new
  /\ cfg = "default"
  /\ started = FALSE
  /\ result = NoResult
  /\ ready = NoIo
  /\ wire \in Greetings
  /\ reply \in Responses
  /\ sent = <<>>
  /\ wrote = FALSE
  /\ greetFed = <<>>
  /\ respFed = <<>>
  /\ log = <<>>
  /\ succeeded = FALSE
  /\ last = NoCall

\* the caller configures the coroutine before it first resumes it
\* (examples/std-rustls-imap.rs:39)
Configure(discard) ==
  /\ ~started
  /\ self' = with_discard_greeting(self, discard)
  /\ cfg' = IF discard THEN "discard" ELSE "skip"
  /\ UNCHANGED <<started, result, ready, wire, reply, sent, wrote,
                 greetFed, respFed, log, succeeded, last>>

\* the request a call returned, tagged with the state that asked for it
LogEntry(r, variant) == [dir |-> r.io.dir, variant |-> variant]

Logged(lg, r, variant) ==
  IF r.tag # "Err" THEN lg
  ELSE IF Len(lg) > 0 /\ lg[Len(lg)] = LogEntry(r, variant) THEN lg
  ELSE Append(lg, LogEntry(r, variant))

\* starttls.resume(input) and what the driver's bookkeeping records of it
Call(input) ==
  LET r == resume(self, input)
  IN /\ self' = r.self
     /\ result' = r.ret
     /\ started' = TRUE
     /\ succeeded' = (succeeded \/ r.ret.tag = "Ok")
     /\ last' = [entry |-> self, input |-> input, before |-> result,
                 again |-> (started /\ input = NoIo /\ last.input = NoIo),
                 drives |-> r.drives]
     /\ log' = Logged(log, r.ret, r.self.state.variant)
     /\ greetFed' = IF input.dir = "Read" /\ self.state.variant = "DiscardGreeting"
                    THEN greetFed \o input.bytes ELSE greetFed
     /\ respFed' = IF input.dir = "Read" /\ self.state.variant = "DiscardResponse"
                   THEN respFed \o input.bytes ELSE respFed

\* resume(None): the first call, or a call repeated while the requested I/O
\* has not been performed
ResumeNone ==
  /\ result.tag # "Panic"
  /\ ready = NoIo
  /\ Call(NoIo)
  /\ UNCHANGED <<cfg, ready, wire, reply, sent, wrote>>

\* resume(Some(io)): the driver feeds the result of the requested I/O
ResumeInput ==
  /\ result.tag = "Err"
  /\ ready # NoIo
  /\ Call(ready)
  /\ ready' = NoIo
  /\ UNCHANGED <<cfg, wire, reply, sent, wrote>>

\* handle(&mut tcp, io) for Io::Read: one read of at most MaxChunk bytes
HandleRead ==
  /\ result.tag = "Err"
  /\ result.io.dir = "Read"
  /\ ready = NoIo
  /\ \E k \in 0..Min(Len(wire), MaxChunk) :
       /\ ready' = ReadDone(SubSeq(wire, 1, k))
       /\ wire' = SubSeq(wire, k + 1, Len(wire))
  /\ UNCHANGED <<self, cfg, started, result, reply, sent, wrote,
                 greetFed, respFed, log, succeeded, last>>

\* handle(&mut tcp, io) for Io::Write: the whole payload is written; the
\* server answers the STARTTLS command
HandleWrite ==
  /\ result.tag = "Err"
  /\ result.io.dir = "Write"
  /\ ready = NoIo
  /\ ready' = WriteDone
  /\ sent' = sent \o result.io.bytes
  /\ wrote' = TRUE
  /\ IF result.io.bytes = COMMAND
     THEN wire' = wire \o reply /\ reply' = <<>>
     ELSE UNCHANGED <<wire, reply>>
  /\ UNCHANGED <<self, cfg, started, result, greetFed, respFed, log,
                 succeeded, last>>

Next ==
  \/ \E discard \in BOOLEAN : Configure(discard)
  \/ ResumeNone
  \/ ResumeInput
  \/ HandleRead
  \/ HandleWrite

Spec == Init /\ [][Next]_vars

(* ---------------------------------------------------------------------- *)
(* Properties                                                              *)
(* ---------------------------------------------------------------------- *)

\* the bytes contain a line terminator
HasLF(bytes) == \E i \in DOMAIN bytes : bytes[i] = LF

\* the bytes contain the tag
HasTag(bytes) == \E i \in DOMAIN bytes : OccursAt(bytes, TAG, i)

\* the bytes contain the tag and a line terminator after it
Complete(bytes) ==
  \E i \in DOMAIN bytes :
    /\ OccursAt(bytes, TAG, i)
    /\ \E j \in i..Len(bytes) : bytes[j] = LF

Dirs(lg) == [i \in DOMAIN lg |-> lg[i].dir]

\* C1: a coroutine made by new and not configured starts by reading the
\* greeting: its first suspension is a read requested by DiscardGreeting,
\* and no write is requested before the greeting's line terminator arrived.
C1_DefaultDiscardsGreeting ==
  (cfg = "default" /\ started) =>
    /\ log # <<>>
    /\ log[1] = [dir |-> "Read", variant |-> "DiscardGreeting"]
    /\ (\E i \in DOMAIN log : log[i].dir = "Write") =>
         HasLF(greetFed)

\* C2: every write request resume returns carries exactly the command
\* "NGC6543 STARTTLS\r\n", on every path that reaches the write step.
C2_WritePayloadIsCommand ==
  (result.tag = "Err" /\ result.io.dir = "Write") => result.io.bytes = COMMAND

\* C3: configured to skip the greeting, the first suspension is a write
\* request, and no read is requested before the write has completed.
C3_SkipWritesFirst ==
  cfg = "skip" =>
    /\ started => (log # <<>> /\ log[1].dir = "Write")
    /\ ~wrote => \A i \in DOMAIN log : log[i].dir = "Write"
    /\ (result.tag = "Err" /\ result.io.dir = "Read") => wrote

\* C3 witness: the greeting was skipped, the write completed and the
\* response is being read
C3_Witness ==
  /\ cfg = "skip"
  /\ wrote
  /\ Dirs(log) = <<"Write", "Read">>
  /\ self.state.variant = "DiscardResponse"

RequestOrder ==
  << [dir |-> "Read", variant |-> "DiscardGreeting"],
     [dir |-> "Write", variant |-> "WriteStartTlsCommand"],
     [dir |-> "Read", variant |-> "DiscardResponse"] >>

\* C4: configured to discard the greeting, the requests come in the order
\* greeting reads, command write, response reads; no write is requested
\* before the greeting bytes contain a line terminator, no response read
\* before the write completed, and one request at most is outstanding.
C4_StrictOrder ==
  cfg = "discard" =>
    /\ Len(log) <= 3
    /\ log = SubSeq(RequestOrder, 1, Len(log))
    /\ Len(log) >= 2 => HasLF(greetFed)
    /\ Len(log) >= 3 => wrote
    /\ result.tag = "Err" =>
         /\ result.io.dir \in {"Read", "Write"}
         /\ result.io = (IF self.state.variant = "WriteStartTlsCommand"
                         THEN WriteRequest(self.state.op.bytes)
                         ELSE ReadRequest)
    /\ ready # NoIo => (result.tag = "Err" /\ ready.dir = result.io.dir)

\* C4 witness: all three phases happened, the greeting in several reads
C4_Witness ==
  /\ cfg = "discard"
  /\ log = RequestOrder
  /\ result.tag = "Ok"
  /\ respFed # <<>>

\* C5: untagged bytes before the tagged line, however many, never make
\* resume succeed without the tag, never make it abort, and it succeeds
\* once the tagged line and its line terminator have been received.
C5_NoiseTolerance ==
  /\ result.tag # "Panic"
  /\ result.tag = "Ok" => HasTag(self.bytes)
  /\ (self.state.variant = "DiscardResponse" /\ last.input.dir = "Read"
        /\ Complete(self.bytes)) => result.tag = "Ok"

\* the last call resumed the read of the given state with bytes read
FedRead(variant) ==
  last.entry.state.variant = variant /\ last.input.dir = "Read"

\* C6: however the response is split into reads, resume asks for another
\* read after every chunk that leaves the tagged line incomplete and
\* succeeds at the call that receives the chunk completing it; the
\* coroutine is then as after a delivery of the same bytes in one read.
C6_TagReassembly ==
  FedRead("DiscardResponse") =>
    LET whole == resume([state |-> DiscardResponse(ReadDefault),
                         bytes |-> <<>>], ReadDone(respFed))
    IN /\ ~Complete(last.entry.bytes) =>
            /\ ~Complete(respFed) => result = Err(ReadRequest)
            /\ Complete(respFed) => result = Ok(<<>>)
       /\ self = whole.self
       /\ result = whole.ret

\* C7: however the greeting is split into reads, DiscardGreeting asks for
\* another read after every chunk without a line terminator and moves to
\* the write step at the call that receives the first line terminator;
\* next state and command are those of a delivery in one read.
C7_GreetingChunking ==
  /\ self.state.variant = "DiscardGreeting" => ~HasLF(self.bytes)
  /\ FedRead("DiscardGreeting") =>
       LET whole == resume(discard_greeting(new, TRUE), ReadDone(greetFed))
       IN /\ ~HasLF(last.entry.bytes)
          /\ ~HasLF(greetFed) =>
               /\ self.state = DiscardGreeting(ReadDefault)
               /\ result = Err(ReadRequest)
          /\ HasLF(greetFed) =>
               /\ self.state = WriteStartTlsCommand(WriteNew(COMMAND))
               /\ result = Err(WriteRequest(COMMAND))
          /\ self = whole.self
          /\ result = whole.ret

\* C7 witness: a greeting that arrived in several reads, the last of which
\* brought the line terminator and bytes after it
C7_Witness ==
  /\ FedRead("DiscardGreeting")
  /\ last.entry.bytes # <<>>
  /\ self.state.variant = "WriteStartTlsCommand"
  /\ greetFed[Len(greetFed)] # LF

\* position (from 1) of the first occurrence of the tag
FirstTag(bytes) ==
  CHOOSE i \in DOMAIN bytes :
    /\ OccursAt(bytes, TAG, i)
    /\ \A j \in 1..(i-1) : ~OccursAt(bytes, TAG, j)

\* position i lies between the first tag and the line terminator after it
InStatus(bytes, i) ==
  /\ HasTag(bytes)
  /\ i >= FirstTag(bytes) + Len(TAG)
  /\ \A j \in (FirstTag(bytes) + Len(TAG))..i : bytes[j] # LF

\* the same bytes with another content of the tagged line
Masked(bytes) ==
  [i \in DOMAIN bytes |-> IF InStatus(bytes, i) THEN "Z" ELSE bytes[i]]

\* C8: what stands between the tag and the line terminator does not
\* matter: resume returns the same for the same stream with another
\* content of the tagged line, succeeds once the tagged line is complete,
\* and has no outcome but success and a pending I/O request.
C8_StatusIgnored ==
  /\ result.tag \in {"None", "Ok", "Err"}
  /\ FedRead("DiscardResponse") =>
       LET other == Masked(self.bytes)
           k     == Len(last.entry.bytes)
           twin  == resume([last.entry EXCEPT !.bytes = SubSeq(other, 1, k)],
                           ReadDone(SubSeq(other, k + 1, Len(other))))
       IN /\ twin.ret = result
          /\ Complete(self.bytes) => result.tag = "Ok"

\* C9: every call returns success or exactly one pending I/O request, and
\* an input is consumed by the coroutine of the state current at entry and
\* by no other: the coroutines resumed after it in the same call get none.
C9_OneRequestOneConsumer ==
  started =>
    /\ result.tag \in {"Ok", "Err"}
    /\ result.tag = "Err" =>
         result.io = (IF self.state.variant = "WriteStartTlsCommand"
                      THEN WriteRequest(self.state.op.bytes)
                      ELSE ReadRequest)
    /\ Len(last.drives) >= 1
    /\ last.drives[1] = [variant |-> last.entry.state.variant,
                         fed |-> last.input # NoIo]
    /\ \A i \in 2..Len(last.drives) : ~last.drives[i].fed

\* C10: resume(None) while a request is outstanding changes neither the
\* state nor the accumulator, returns a request of the state's kind (the
\* same one when repeated), and never asks again for the command to be
\* written once it was written.
C10_IdleResume ==
  (started /\ last.input = NoIo) =>
    /\ self = last.entry
    /\ result = Err(IF self.state.variant = "WriteStartTlsCommand"
                    THEN WriteRequest(self.state.op.bytes)
                    ELSE ReadRequest)
    /\ last.again => result = last.before
    /\ (wrote /\ ready = NoIo) => result.io.dir = "Read"
    /\ Len(sent) <= Len(COMMAND)

\* C10 witness: resume(None) repeated while part of the response is
\* buffered
C10_Witness ==
  /\ last.again
  /\ self.state.variant = "DiscardResponse"
  /\ self.bytes # <<>>
  /\ ~Complete(self.bytes)

\* the driver loop can take a step (the guards of ResumeInput, HandleRead
\* and HandleWrite): feed a result back, or perform the requested I/O
DriverCanStep ==
  /\ result.tag = "Err"
  /\ \/ ready # NoIo
     \/ ready = NoIo /\ result.io.dir \in {"Read", "Write"}

\* C11: a driver that keeps feeding the results back ends with success:
\* with the greeting discarded, resume has returned success or the loop
\* has a step left to take; it never stops short of success.
C11_DriverEndsInSuccess ==
  (started /\ cfg = "discard") => (result.tag = "Ok" \/ DriverCanStep)

\* C12: after a read result was appended in DiscardResponse, resume
\* succeeds exactly when the accumulator holds the tag and a line
\* terminator at or after its first occurrence; otherwise it asks for
\* another read.
C12_CompletionCondition ==
  FedRead("DiscardResponse") =>
    /\ (result = Ok(<<>>)) <=> Complete(self.bytes)
    /\ result # Ok(<<>>) => result = Err(ReadRequest)

\* C13: the ranges that are logged, bytes[..=n] of the greeting and
\* bytes[n..=m] of the response, are within bounds for every accumulator
\* that is reached, so that computing them never aborts resume.
C13_TraceInBounds ==
  /\ (FedRead("DiscardGreeting") /\ HasLF(self.bytes)) =>
       SliceInclusiveOk(self.bytes, 0, memchr(LF, self.bytes))
  /\ (FedRead("DiscardResponse") /\ Complete(self.bytes)) =>
       SliceInclusiveOk(self.bytes, memmem_find(self.bytes, TAG),
         memchr(LF, SliceFrom(self.bytes, memmem_find(self.bytes, TAG))))
  /\ started => result.tag \in {"Ok", "Err"}

\* the bytes fed to the read of the current state
FedHere ==
  IF self.state.variant = "DiscardResponse" THEN respFed ELSE greetFed

\* C14 as stated: the accumulator is cleared on every transition, so that
\* it is empty throughout WriteStartTlsCommand and holds, in a read state,
\* only the bytes received in that state.
C14_ClearedOnEveryTransition ==
  /\ self.state.variant = "WriteStartTlsCommand" => self.bytes = <<>>
  /\ self.state.variant # "WriteStartTlsCommand" => self.bytes = FedHere

\* C14 as amended: the accumulator is cleared on the transition from
\* WriteStartTlsCommand to DiscardResponse only.  It is empty right after
\* that transition and holds, in a read state, only the bytes received in
\* that state; throughout WriteStartTlsCommand it still holds the bytes of
\* the greeting (none when the greeting was skipped).
C14_ClearedBeforeResponse ==
  /\ self.bytes = FedHere
  /\ (last.entry.state.variant = "WriteStartTlsCommand"
        /\ last.input.dir = "Write") =>
       (self.state.variant = "DiscardResponse" /\ self.bytes = <<>>)

\* C14 witness: the write completed while the accumulator still held the
\* greeting, and the response is read into an empty accumulator
C14_Witness ==
  /\ last.entry.state.variant = "WriteStartTlsCommand"
  /\ last.input.dir = "Write"
  /\ HasLF(last.entry.bytes)
  /\ self.state.variant = "DiscardResponse"
  /\ self.bytes = <<>>

\* C15: within a read state the accumulator is append-only: after a call
\* that consumed a read result it is its value at entry followed by the
\* bytes of that read, hence the concatenation of all chunks read so far
\* in that state.
C15_AppendOnly ==
  (started /\ last.input.dir = "Read") =>
    /\ self.bytes = last.entry.bytes \o last.input.bytes
    /\ FedRead("DiscardGreeting") => self.bytes = greetFed
    /\ FedRead("DiscardResponse") => self.bytes = respFed

\* C15 witness: a chunk of the response appended to earlier chunks
C15_Witness ==
  /\ FedRead("DiscardResponse")
  /\ last.entry.bytes # <<>>
  /\ last.input.bytes # <<>>
  /\ self.bytes = respFed

Rank(variant) ==
  CASE variant = "DiscardGreeting" -> 1
    [] variant = "WriteStartTlsCommand" -> 2
    [] variant = "DiscardResponse" -> 3

Writes(lg) == {i \in DOMAIN lg : lg[i].dir = "Write"}

\* C16: once resume is being called the state only moves forward,
\* DiscardGreeting, WriteStartTlsCommand, DiscardResponse; the write is
\* requested once at most; after a success the state stays DiscardResponse
\* and every further call returns success or a read request.
C16_Monotone ==
  [][ /\ started' =>
           Rank(self'.state.variant) >= Rank(self.state.variant)
      /\ Cardinality(Writes(log')) <= 1
      /\ Len(sent') <= Len(COMMAND)
      /\ succeeded' =>
           /\ self'.state.variant = "DiscardResponse"
           /\ result' \in {Ok(<<>>), Err(ReadRequest)} ]_vars

\* C16 witness: after a success, a further read was requested, performed
\* and fed back, and resume returned success again
C16_Witness ==
  /\ succeeded
  /\ last.before = Err(ReadRequest)
  /\ Complete(last.entry.bytes)
  /\ last.input.dir = "Read"
  /\ result = Ok(<<>>)

\* C17: the bytes of the greeting never count towards the response:
\* resume succeeds only on bytes read after the write completed, and the
\* accumulator is empty when DiscardResponse is entered, whatever the
\* greeting held.
C17_GreetingNotCounted ==
  /\ succeeded => (wrote /\ respFed # <<>> /\ Complete(respFed))
  /\ (self.state.variant = "DiscardResponse" /\ respFed = <<>>) =>
       (self.bytes = <<>> /\ result = Err(ReadRequest))

\* C17 witness: the greeting held the tag and a line terminator, a read of
\* the response was fed back, and resume asks for more
C17_Witness ==
  /\ Complete(greetFed)
  /\ FedRead("DiscardResponse")
  /\ ~Complete(respFed)
  /\ result = Err(ReadRequest)

Fed(drives) == {i \in DOMAIN drives : drives[i].fed}

\* C18: every call ends after a bounded number of passes of its loop: one
\* coroutine at most is resumed with the input, and after at most two
\* transitions or one retry the call returns success or the request of a
\* coroutine resumed without input; a read is never resumed again and
\* again within one call.
C18_CallTerminates ==
  started =>
    /\ Len(last.drives) \in 1..3
    /\ Cardinality(Fed(last.drives)) <= 1
    /\ Fed(last.drives) \subseteq {1}
    /\ \A i, j \in DOMAIN last.drives :
         (i < j /\ last.drives[i].variant = last.drives[j].variant) =>
           (j = i + 1 /\ j = Len(last.drives))
    /\ result.tag \in {"Ok", "Err"}
    /\ result.tag = "Err" => ~last.drives[Len(last.drives)].fed

\* C19: a read that brings no bytes, or bytes that do not complete the
\* awaited line, makes resume neither succeed nor fail: the state stays
\* and another read is requested.
C19_KeepsReading ==
  /\ (FedRead("DiscardGreeting") /\ ~HasLF(greetFed)) =>
       (self.state = last.entry.state /\ result = Err(ReadRequest))
  /\ (FedRead("DiscardResponse") /\ ~Complete(respFed)) =>
       (self.state = last.entry.state /\ result = Err(ReadRequest))
  /\ (started /\ last.input = ReadDone(<<>>) /\ ~succeeded) =>
       (self = last.entry /\ result = Err(ReadRequest))

\* C19 witness: the server sent all it had, without the tag, and a read of
\* zero bytes was fed back
C19_Witness ==
  /\ FedRead("DiscardResponse")
  /\ last.input = ReadDone(<<>>)
  /\ wire = <<>>
  /\ wrote
  /\ respFed # <<>>
  /\ ~HasTag(respFed)
  /\ result = Err(ReadRequest)

\* the tagged line: from the first occurrence of the tag to the first line
\* terminator after it
AckLine(bytes) ==
  LET p == FirstTag(bytes)
      q == CHOOSE j \in p..Len(bytes) :
             /\ bytes[j] = LF
             /\ \A k \in p..(j-1) : bytes[k] # LF
  IN SubSeq(bytes, p, q)

\* C20: the line DiscardResponse reports as discarded is the tagged line,
\* from the first occurrence of the tag to the first line terminator at or
\* after it, whatever precedes the tag.
C20_DiscardedLineIsAck ==
  (FedRead("DiscardResponse") /\ result.tag = "Ok") =>
    ResponseLogged(self.bytes) = AckLine(self.bytes)

====
